---------------------------- MODULE Spec2Model ----------------------------
(***************************************************************************)
(* A model of Envoy's admin stats handlers                                 *)
(* (source/server/http/stats_handler.cc): the /stats endpoint with its     *)
(* plain-text, JSON and Prometheus renderings, /reset_counters, and the    *)
(* /stats/recentlookups control surface.                                   *)
(*                                                                         *)
(* Strings are sequences of one-character strings, ordered as std::string  *)
(* orders them.  A response body is the sequence of the pieces the handler *)
(* adds to the response buffer.  Every metric carries an id, and every     *)
(* rendered piece carries the id of the metric it was rendered from (src): *)
(* the id is not part of the wire format, it lets a property name the      *)
(* metric object behind a line when two metrics share a name.              *)
(***************************************************************************)
EXTENDS Integers, Sequences, FiniteSets, TLC

VARIABLES
  counters,       \* server.stats().counters(), in the store's enumeration order
  gauges,         \* server.stats().gauges()
  textReadouts,   \* server.stats().textReadouts()
  histograms,     \* server.stats().histograms()
  capacity,       \* symbolTable().recentLookupCapacity()
  lookups,        \* the recent-lookups tracker's entries: name -> count
  total,          \* the tracker's total number of lookups
  last            \* the response of the handler that ran last

storeVars == <<counters, gauges, textReadouts, histograms>>
trackerVars == <<capacity, lookups, total>>
vars == <<counters, gauges, textReadouts, histograms,
          capacity, lookups, total, last>>

---------------------------------------------------------------------------
(* Bounds of the model *)

\* Largest value a counter or gauge is driven to.
MaxValue == 1
\* Number of quantile cut-points of the histogram schema (10 in the server).
NumQuantiles == 2
\* Largest number of name lookups the tracker is driven through.
MaxLookups == 2

---------------------------------------------------------------------------
(* Strings *)

\* The code unit of a character, for std::string's ordering.
Ord(c) ==
  CASE c = "(" -> 40
    [] c = "." -> 46
    [] c = "<" -> 60
    [] c = "a" -> 97
    [] c = "b" -> 98
    [] c = "h" -> 104
    [] c = "i" -> 105
    [] c = "x" -> 120
    [] OTHER -> 0

\* std::string operator<, the order of std::map and std::multimap keys:
\* the first differing character decides, a proper prefix is smaller.
StrLess(s, t) ==
  LET n == IF Len(s) < Len(t) THEN Len(s) ELSE Len(t)
      d == {i \in 1..n : s[i] # t[i]}
  IN  IF d = {}
      THEN Len(s) < Len(t)
      ELSE LET i == CHOOSE j \in d : \A k \in d : j <= k
           IN  Ord(s[i]) < Ord(t[i])

\* Whether pattern p occurs in name s (std::regex_search with a pattern of
\* literal characters: a search, not a full match).
RegexSearch(s, p) ==
  \E i \in 0..(Len(s) - Len(p)) : \A j \in 1..Len(p) : s[i + j] = p[j]

\* Whether std::regex accepts the pattern: an unbalanced "(" does not compile.
Compiles(p) == \A i \in 1..Len(p) : p[i] # "("

---------------------------------------------------------------------------
(* Values *)

\* A double that is a number, in thousandths (0.25 is Num(250)).
Num(n) == [num |-> n]
\* A double that is not-a-number.
NaN == [nan |-> TRUE]
\* std::isnan
IsNan(d) == d = NaN

\* ProtobufWkt values built by ValueUtil.
NullValue == [null |-> TRUE]
NumberValue(d) == [number |-> d]
StringValue(s) == [string |-> s]

\* Html::Utility::sanitize: the characters special to HTML are replaced by
\* their entities.
RECURSIVE Sanitize(_)
Sanitize(s) ==
  IF s = <<>> THEN <<>>
  ELSE (IF Head(s) = "<" THEN <<"&", "l", "t", ";">> ELSE <<Head(s)>>)
       \o Sanitize(Tail(s))

\* HistogramStatisticsImpl::supportedQuantiles(): the cut-points shared by
\* every histogram, as fractions (in thousandths).
QuantileTable == <<0, 250, 500, 750, 900, 950, 990, 995, 999, 1000>>
SupportedQuantiles == [i \in 1..NumQuantiles |-> Num(QuantileTable[i])]

\* A double times 100.
Times100(d) == IF IsNan(d) THEN NaN ELSE Num(d.num * 100)

---------------------------------------------------------------------------
(* Requests *)

HttpOK == 200
HttpBadRequest == 400
HttpNotFound == 404

\* The filter query parameter: absent, or a pattern.
Patterns == {<<"(">>, <<"a">>, <<"a", "b">>}
NoFilter == [has |-> FALSE, pat |-> <<>>]
Filters == {NoFilter} \cup {[has |-> TRUE, pat |-> p] : p \in Patterns}

\* The format query parameter: absent, or a value.
NoFormat == [has |-> FALSE, value |-> ""]
Formats == {NoFormat} \cup {[has |-> TRUE, value |-> v] : v \in {"json", "prometheus", "xml"}}

\* Http::Utility::parseQueryString(url): the parameters the handlers look at.
Requests == [usedonly : BOOLEAN, filter : Filters, format : Formats]

\* What an out-of-bounds read of a std::vector<double> may do: the behaviour
\* is undefined, the read traps or yields whatever the memory holds.
UBOutcomes == {"trap", "nan", "zero"}

\* Utility::filterParam: compiles the filter parameter when there is one; on a
\* pattern that does not compile it adds a diagnostic and returns false.
FilterParam(req) ==
  LET bad == req.filter.has /\ ~Compiles(req.filter.pat)
  IN  [ok |-> ~bad,
       regex |-> IF bad THEN NoFilter ELSE req.filter,
       added |-> IF bad THEN <<[kind |-> "invalid_regex", pattern |-> req.filter.pat]>>
                 ELSE <<>>]

\* Utility::formatParam: the format parameter, when there is one.
FormatParam(req) == req.format

\* StatsHandler::shouldShowMetric: the one filter decision for all metric kinds.
ShouldShowMetric(metric, used_only, regex) ==
  /\ (~used_only \/ metric.used)
  /\ (~regex.has \/ RegexSearch(metric.name, regex.pat))

\* ASSERT(cond) fails, in a build that compiles assertions in: the process
\* ends there.
AssertFails(cond) == ~cond

---------------------------------------------------------------------------
(* std::map and std::multimap, as sequences sorted by key *)

Entry(k, v, id) == [key |-> k, value |-> v, src |-> id]

\* std::map::emplace: a key already present is left alone; a new key goes to
\* its place in key order.
MapEmplace(m, k, v, id) ==
  IF \E i \in 1..Len(m) : m[i].key = k
  THEN m
  ELSE LET n == Cardinality({i \in 1..Len(m) : StrLess(m[i].key, k)})
       IN  SubSeq(m, 1, n) \o <<Entry(k, v, id)>> \o SubSeq(m, n + 1, Len(m))

\* A multimap that puts a new element before the elements of equal key.
MultimapEmplaceLower(m, k, v, id) ==
  LET n == Cardinality({i \in 1..Len(m) : StrLess(m[i].key, k)})
  IN  SubSeq(m, 1, n) \o <<Entry(k, v, id)>> \o SubSeq(m, n + 1, Len(m))

\* std::multimap::emplace: the new element goes after the elements whose key
\* is not greater (the upper bound of its key's range).
MultimapEmplace(m, k, v, id) ==
  LET n == Cardinality({i \in 1..Len(m) : ~StrLess(k, m[i].key)})
  IN  SubSeq(m, 1, n) \o <<Entry(k, v, id)>> \o SubSeq(m, n + 1, Len(m))

---------------------------------------------------------------------------
(* handlerStats: collecting the filtered metrics *)

\* One round of the loop over the counters.
CounterStep(m, counter, used_only, regex) ==
  IF ShouldShowMetric(counter, used_only, regex)
  THEN MapEmplace(m, counter.name, counter.value, counter.id)
  ELSE m

RECURSIVE CollectCounters(_, _, _, _)
CollectCounters(cs, used_only, regex, m) ==
  IF cs = <<>> THEN m
  ELSE CollectCounters(Tail(cs), used_only, regex,
                       CounterStep(m, Head(cs), used_only, regex))

GaugeStepNoAssert(acc, gauge, used_only, regex) ==
  IF acc.failed THEN acc
  ELSE IF ShouldShowMetric(gauge, used_only, regex)
  THEN [acc EXCEPT !.map = MapEmplace(acc.map, gauge.name, gauge.value, gauge.id)]
  ELSE acc

\* One round of the loop over the gauges: acc.map is all_stats, acc.failed
\* says that the assertion failed and the process is gone.
GaugeStep(acc, gauge, used_only, regex) ==
  IF acc.failed THEN acc
  ELSE IF ShouldShowMetric(gauge, used_only, regex)
  THEN IF AssertFails(gauge.importMode # "Uninitialized")
       THEN [acc EXCEPT !.failed = TRUE]
       ELSE [acc EXCEPT !.map = MapEmplace(acc.map, gauge.name, gauge.value, gauge.id)]
  ELSE acc

RECURSIVE CollectGauges(_, _, _, _)
CollectGauges(gs, used_only, regex, acc) ==
  IF gs = <<>> THEN acc
  ELSE CollectGauges(Tail(gs), used_only, regex,
                     GaugeStep(acc, Head(gs), used_only, regex))

\* all_stats: the counters, then the gauges, in one map.
AllStats(used_only, regex) ==
  CollectGauges(gauges, used_only, regex,
                [map |-> CollectCounters(counters, used_only, regex, <<>>),
                 failed |-> FALSE])

\* One round of the loop over the text readouts.
TextReadoutStep(m, text_readout, used_only, regex) ==
  IF ShouldShowMetric(text_readout, used_only, regex)
  THEN MapEmplace(m, text_readout.name, text_readout.value, text_readout.id)
  ELSE m

RECURSIVE CollectTextReadouts(_, _, _, _)
CollectTextReadouts(ts, used_only, regex, m) ==
  IF ts = <<>> THEN m
  ELSE CollectTextReadouts(Tail(ts), used_only, regex,
                           TextReadoutStep(m, Head(ts), used_only, regex))

---------------------------------------------------------------------------
(* handlerStats: the plain-text rendering *)

\* ParentHistogram::quantileSummary(): the histogram's interval and
\* cumulative quantiles, as one summary.
QuantileSummary(histogram) ==
  [interval |-> histogram.interval, cumulative |-> histogram.cumulative]

HistogramStep(m, histogram, used_only, regex) ==
  IF ShouldShowMetric(histogram, used_only, regex)
  THEN MultimapEmplace(m, histogram.name, QuantileSummary(histogram), histogram.id)
  ELSE m

RECURSIVE CollectHistograms(_, _, _, _)
CollectHistograms(hs, used_only, regex, m) ==
  IF hs = <<>> THEN m
  ELSE CollectHistograms(Tail(hs), used_only, regex,
                         HistogramStep(m, Head(hs), used_only, regex))

TextReadoutLine(e) ==
  [kind |-> "text_readout", name |-> e.key, text |-> Sanitize(e.value), src |-> e.src]
StatLine(e) ==
  [kind |-> "stat", name |-> e.key, value |-> e.value, src |-> e.src]
HistogramLine(e) ==
  [kind |-> "histogram", name |-> e.key, summary |-> e.value, src |-> e.src]

\* The body of a request without a format parameter.
PlainText(all_stats, text_readouts, used_only, regex) ==
  LET all_histograms == CollectHistograms(histograms, used_only, regex, <<>>)
  IN  [i \in 1..Len(text_readouts) |-> TextReadoutLine(text_readouts[i])]
      \o [i \in 1..Len(all_stats) |-> StatLine(all_stats[i])]
      \o [i \in 1..Len(all_histograms) |-> HistogramLine(all_histograms[i])]

---------------------------------------------------------------------------
(* statsAsJson *)

\* uint64_t to double, as ValueUtil::numberValue takes it.
ToDouble(v) == Num(v * 1000)

\* computedQuantiles()[i]: past the end of the vector the read is undefined.
ReadQuantile(q, i, ub) ==
  IF i <= Len(q) THEN q[i]
  ELSE IF ub = "zero" THEN Num(0) ELSE NaN

\* Whether rendering the histogram reads past the end of a vector.
ReadsOutOfBounds(histogram) ==
  \E i \in 1..Len(SupportedQuantiles) :
     i > Len(histogram.interval) \/ i > Len(histogram.cumulative)

\* A quantile pair that takes its interval value from the first quantile.
QuantileValueShifted(histogram, i, ub) ==
  LET interval == ReadQuantile(histogram.interval, 1, ub)
      cumulative == ReadQuantile(histogram.cumulative, i, ub)
  IN  [interval |-> IF IsNan(interval) THEN NullValue ELSE NumberValue(interval),
       cumulative |-> IF IsNan(cumulative) THEN NullValue ELSE NumberValue(cumulative)]

\* The {interval, cumulative} object of quantile i.
QuantileValue(histogram, i, ub) ==
  LET interval == ReadQuantile(histogram.interval, i, ub)
      cumulative == ReadQuantile(histogram.cumulative, i, ub)
  IN  [interval |-> IF IsNan(interval) THEN NullValue ELSE NumberValue(interval),
       cumulative |-> IF IsNan(cumulative) THEN NullValue ELSE NumberValue(cumulative)]

\* The {name, values} object of one histogram: one value per supported
\* quantile of its interval statistics.
ComputedQuantile(histogram, ub) ==
  [name |-> StringValue(histogram.name),
   values |-> [i \in 1..Len(SupportedQuantiles) |-> QuantileValue(histogram, i, ub)],
   src |-> histogram.id]

\* The start of the loop: nothing found yet.
NoHistogramYet ==
  [found |-> FALSE, supported |-> <<>>, computed |-> <<>>, trapped |-> FALSE]

\* A loop over the histograms that sets found_used_histogram on every one.
JsonHistogramStepAlwaysFound(acc, histogram, used_only, regex, ub) ==
  LET seen == [acc EXCEPT !.found = TRUE,
                          !.supported = [i \in 1..Len(SupportedQuantiles) |->
                                           NumberValue(Times100(SupportedQuantiles[i]))]]
  IN  IF ShouldShowMetric(histogram, used_only, regex)
      THEN [seen EXCEPT !.computed = Append(acc.computed, ComputedQuantile(histogram, ub))]
      ELSE seen

\* A loop over the histograms that shows every histogram.
JsonHistogramStepUnfiltered(acc, histogram, used_only, regex, ub) ==
  [acc EXCEPT !.found = TRUE,
              !.supported = [i \in 1..Len(SupportedQuantiles) |->
                               NumberValue(Times100(SupportedQuantiles[i]))],
              !.computed = Append(acc.computed, ComputedQuantile(histogram, ub))]

\* A loop over the histograms that keeps the computed quantiles sorted by
\* histogram name, as a multimap would.
JsonHistogramStepSorted(acc, histogram, used_only, regex, ub) ==
  LET n == Cardinality({i \in 1..Len(acc.computed) :
                          ~StrLess(histogram.name, acc.computed[i].name.string)})
  IN  IF ShouldShowMetric(histogram, used_only, regex)
      THEN [found |-> TRUE,
            supported |-> [i \in 1..Len(SupportedQuantiles) |->
                             NumberValue(Times100(SupportedQuantiles[i]))],
            computed |-> SubSeq(acc.computed, 1, n)
                         \o <<ComputedQuantile(histogram, ub)>>
                         \o SubSeq(acc.computed, n + 1, Len(acc.computed)),
            trapped |-> acc.trapped \/ (ub = "trap" /\ ReadsOutOfBounds(histogram))]
      ELSE acc

\* One round of the loop over all_histograms, the store's vector.
JsonHistogramStep(acc, histogram, used_only, regex, ub) ==
  IF ShouldShowMetric(histogram, used_only, regex)
  THEN [found |-> TRUE,
        supported |-> IF ~acc.found
                      THEN [i \in 1..Len(SupportedQuantiles) |->
                              NumberValue(Times100(SupportedQuantiles[i]))]
                      ELSE acc.supported,
        computed |-> Append(acc.computed, ComputedQuantile(histogram, ub)),
        trapped |-> acc.trapped \/ (ub = "trap" /\ ReadsOutOfBounds(histogram))]
  ELSE acc

RECURSIVE JsonHistograms(_, _, _, _, _)
JsonHistograms(hs, used_only, regex, ub, acc) ==
  IF hs = <<>> THEN acc
  ELSE JsonHistograms(Tail(hs), used_only, regex, ub,
                      JsonHistogramStep(acc, Head(hs), used_only, regex, ub))

TextReadoutObject(e) ==
  [name |-> StringValue(e.key), value |-> StringValue(e.value), src |-> e.src]
StatObject(e) ==
  [name |-> StringValue(e.key), value |-> NumberValue(ToDouble(e.value)), src |-> e.src]
HistogramsObject(acc) ==
  [histograms |-> [supported_quantiles |-> acc.supported,
                   computed_quantiles |-> acc.computed]]

StatsArray(all_stats, text_readouts, acc) ==
  [i \in 1..Len(text_readouts) |-> TextReadoutObject(text_readouts[i])]
  \o [i \in 1..Len(all_stats) |-> StatObject(all_stats[i])]
  \o (IF acc.found THEN <<HistogramsObject(acc)>> ELSE <<>>)

\* The document, and whether building it trapped.
StatsAsJson(all_stats, text_readouts, all_histograms, used_only, regex, ub) ==
  LET acc == JsonHistograms(all_histograms, used_only, regex, ub, NoHistogramYet)
  IN  [doc |-> [stats |-> StatsArray(all_stats, text_readouts, acc)],
       trapped |-> acc.trapped]

---------------------------------------------------------------------------
(* The handlers of /stats and /stats/prometheus *)

\* What a handler run leaves behind: the status it returned and the body it
\* added, the store accessors it called (reads), and whether it returned at
\* all (outcome: "returned", "assert_failed" or "trapped").
Response(op, req, status, body, reads, outcome) ==
  [op |-> op, req |-> req, status |-> status, body |-> body,
   reads |-> reads, outcome |-> outcome]

\* The request of a handler that takes no parameters.
NoRequest == [usedonly |-> FALSE, filter |-> NoFilter, format |-> NoFormat]

\* No handler has run since the store changed.
Idle == Response("none", NoRequest, 0, <<>>, {}, "returned")

RECURSIVE PrometheusLines(_, _, _, _)
PrometheusLines(ms, metric, used_only, regex) ==
  IF ms = <<>> THEN <<>>
  ELSE (IF ShouldShowMetric(Head(ms), used_only, regex)
        THEN <<[kind |-> "prometheus", metric |-> metric,
                name |-> Head(ms).name, src |-> Head(ms).id]>>
        ELSE <<>>)
       \o PrometheusLines(Tail(ms), metric, used_only, regex)

\* PrometheusStatsFormatter::statsAsPrometheus: the exposition lines of the
\* counters, gauges and histograms that pass the filter.
StatsAsPrometheus(cs, gs, hs, used_only, regex) ==
  PrometheusLines(cs, "counter", used_only, regex)
  \o PrometheusLines(gs, "gauge", used_only, regex)
  \o PrometheusLines(hs, "histogram", used_only, regex)

HandlerPrometheusStats(op, req, body, reads) ==
  LET fp == FilterParam(req)
  IN  IF ~fp.ok
      THEN Response(op, req, HttpBadRequest, body \o fp.added, reads, "returned")
      ELSE Response(op, req, HttpOK,
                    body \o StatsAsPrometheus(counters, gauges, histograms,
                                              req.usedonly, fp.regex),
                    reads \cup {"counters", "gauges", "histograms"}, "returned")

UsageLines == <<[kind |-> "usage"], [kind |-> "blank"]>>

Collected == {"counters", "gauges", "textReadouts"}

\* The JSON branch.
RenderJson(req, all_stats, text_readouts, regex, ub) ==
  LET json == StatsAsJson(all_stats, text_readouts, histograms, req.usedonly, regex, ub)
  IN  IF json.trapped
      THEN Response("stats", req, 0, <<>>, Collected \cup {"histograms"}, "trapped")
      ELSE Response("stats", req, HttpOK, <<[kind |-> "json", doc |-> json.doc]>>,
                    Collected \cup {"histograms"}, "returned")

\* The plain-text branch.
RenderPlain(req, all_stats, text_readouts, regex) ==
  Response("stats", req, HttpOK,
           PlainText(all_stats, text_readouts, req.usedonly, regex),
           Collected \cup {"histograms"}, "returned")

\* A dispatch that sends an unrecognized format on to the plain-text branch.
RenderByFormatFallThrough(req, all_stats, text_readouts, regex, ub) ==
  LET format_value == FormatParam(req)
  IN  IF format_value.has /\ format_value.value = "json"
      THEN RenderJson(req, all_stats, text_readouts, regex, ub)
      ELSE IF format_value.has /\ format_value.value = "prometheus"
      THEN HandlerPrometheusStats("stats", req, <<>>, Collected)
      ELSE RenderPlain(req, all_stats, text_readouts, regex)

\* The dispatch on the format parameter.
RenderByFormat(req, all_stats, text_readouts, regex, ub) ==
  LET format_value == FormatParam(req)
  IN  IF format_value.has
      THEN IF format_value.value = "json"
           THEN RenderJson(req, all_stats, text_readouts, regex, ub)
           ELSE IF format_value.value = "prometheus"
           THEN HandlerPrometheusStats("stats", req, <<>>, Collected)
           ELSE Response("stats", req, HttpNotFound, UsageLines, Collected, "returned")
      ELSE RenderPlain(req, all_stats, text_readouts, regex)

\* handlerStats after the filter compiled: collect, then render.
CollectAndRender(req, regex, ub) ==
  LET all == AllStats(req.usedonly, regex)
  IN  IF all.failed
      THEN Response("stats", req, 0, <<>>, {"counters", "gauges"}, "assert_failed")
      ELSE RenderByFormat(req, all.map,
                          CollectTextReadouts(textReadouts, req.usedonly, regex, <<>>),
                          regex, ub)

\* A handler that goes on without a filter when the pattern does not compile.
HandlerStatsNoReject(req, ub) ==
  CollectAndRender(req, FilterParam(req).regex, ub)

\* StatsHandler::handlerStats
HandlerStats(req, ub) ==
  LET fp == FilterParam(req)
  IN  IF ~fp.ok
      THEN Response("stats", req, HttpBadRequest, fp.added, {}, "returned")
      ELSE CollectAndRender(req, fp.regex, ub)

---------------------------------------------------------------------------
(* The recent-lookups tracker of the symbol table *)

RecentLookupsCapacity == 100

\* The names that are looked up.
LookupNames == {<<"a">>, <<"b">>}

NoLookups == [n \in LookupNames |-> 0]

\* SymbolTable::clearRecentLookups: the entries and the total are dropped.
ClearRecentLookups ==
  /\ lookups' = NoLookups
  /\ total' = 0

\* SymbolTable::getRecentLookups: calls back once per entry, the most looked
\* up first and equal counts by name, and returns the total.
RecentLookupsReport ==
  LET names == {n \in LookupNames : lookups[n] > 0}
      Before(m, n) == \/ lookups[m] > lookups[n]
                      \/ lookups[m] = lookups[n] /\ StrLess(m, n)
      rank(n) == 1 + Cardinality({m \in names : Before(m, n)})
  IN  [i \in 1..Cardinality(names) |->
         LET n == CHOOSE m \in names : rank(m) = i
         IN  [kind |-> "row", count |-> lookups[n], name |-> n]]

OkBody == <<[kind |-> "ok"]>>
DisabledMessage == [kind |-> "tracking_not_enabled"]
TableHeader == [kind |-> "table_header"]
TotalLine(t) == [kind |-> "total", total |-> t]

\* A report that decides on the capacity alone.
RecentLookupsBodyByCapacity ==
  LET table == RecentLookupsReport
  IN  (IF capacity = 0
       THEN <<DisabledMessage>>
       ELSE <<TableHeader>> \o table)
      \o <<TotalLine(total)>>

\* The body of handlerStatsRecentLookups.
RecentLookupsBody ==
  LET table == RecentLookupsReport
  IN  (IF table = <<>> /\ capacity = 0
       THEN <<DisabledMessage>>
       ELSE <<TableHeader>> \o table)
      \o <<TotalLine(total)>>

\* StatsHandler::handlerStatsRecentLookups
HandlerStatsRecentLookups ==
  /\ last = Idle
  /\ last' = Response("recent_lookups", NoRequest, HttpOK, RecentLookupsBody, {}, "returned")
  /\ UNCHANGED <<storeVars, trackerVars>>

\* StatsHandler::handlerStatsRecentLookupsClear
HandlerStatsRecentLookupsClear ==
  /\ last = Idle
  /\ ClearRecentLookups
  /\ last' = Response("recent_lookups_clear", NoRequest, HttpOK, OkBody, {}, "returned")
  /\ UNCHANGED <<storeVars, capacity>>

\* SymbolTable::setRecentLookupCapacity: the entries beyond the new capacity
\* go (the names looked up here never exceed RecentLookupsCapacity); whether
\* a tracker of capacity zero drops its entries at once is the tracker's own
\* business, and purge allows for both.
SetRecentLookupCapacity(c, purge) ==
  /\ capacity' = c
  /\ lookups' = IF c = 0 /\ purge THEN NoLookups ELSE lookups
  /\ total' = total

\* StatsHandler::handlerStatsRecentLookupsDisable
HandlerStatsRecentLookupsDisable ==
  /\ last = Idle
  /\ \E purge \in BOOLEAN : SetRecentLookupCapacity(0, purge)
  /\ last' = Response("recent_lookups_disable", NoRequest, HttpOK, OkBody, {}, "returned")
  /\ UNCHANGED storeVars

\* StatsHandler::handlerStatsRecentLookupsEnable
HandlerStatsRecentLookupsEnable ==
  /\ last = Idle
  /\ SetRecentLookupCapacity(RecentLookupsCapacity, FALSE)
  /\ last' = Response("recent_lookups_enable", NoRequest, HttpOK, OkBody, {}, "returned")
  /\ UNCHANGED storeVars

\* Counter::reset
CounterReset(counter) == [counter EXCEPT !.value = 0]

\* A reset that leaves the tracker alone.
HandlerResetCountersNoClear ==
  /\ last = Idle
  /\ counters' = [i \in 1..Len(counters) |-> CounterReset(counters[i])]
  /\ last' = Response("reset_counters", NoRequest, HttpOK, OkBody, {"counters"}, "returned")
  /\ UNCHANGED <<gauges, textReadouts, histograms, trackerVars>>

\* StatsHandler::handlerResetCounters
HandlerResetCounters ==
  /\ last = Idle
  /\ counters' = [i \in 1..Len(counters) |-> CounterReset(counters[i])]
  /\ ClearRecentLookups
  /\ last' = Response("reset_counters", NoRequest, HttpOK, OkBody, {"counters"}, "returned")
  /\ UNCHANGED <<gauges, textReadouts, histograms, capacity>>

\* A name is looked up in the symbol table: the tracker counts it, and
\* records it when tracking is enabled.
Lookup ==
  /\ last.outcome = "returned"
  /\ total < MaxLookups
  /\ \E n \in LookupNames :
       lookups' = IF capacity > 0 THEN [lookups EXCEPT ![n] = @ + 1] ELSE lookups
  /\ total' = total + 1
  /\ last' = Idle
  /\ UNCHANGED <<storeVars, capacity>>

---------------------------------------------------------------------------
(* The store *)

Counter(id, name, value, used) ==
  [id |-> id, name |-> name, value |-> value, used |-> used]
Gauge(id, name, value, used, mode) ==
  [id |-> id, name |-> name, value |-> value, used |-> used, importMode |-> mode]
TextReadout(id, name, value, used) ==
  [id |-> id, name |-> name, value |-> value, used |-> used]
Histogram(id, name, used, interval, cumulative) ==
  [id |-> id, name |-> name, used |-> used,
   interval |-> interval, cumulative |-> cumulative]

\* The computed quantiles of statistics without samples.
NoSamples(n) == [i \in 1..n |-> NaN]
\* Computed quantiles of statistics with samples: quantile i is base + i.
Samples(n, base) == [i \in 1..n |-> Num((base + i) * 1000)]

\* The metrics the store starts with.  Names are unique among the counters
\* and gauges and among the text readouts; two histograms share a name.
InitialCounters ==
  <<Counter("c1", <<"a", "b">>, 0, FALSE), Counter("c2", <<"b">>, MaxValue, TRUE)>>
InitialGauges(mode) ==
  <<Gauge("g1", <<"a">>, MaxValue, TRUE, "Accumulate"),
    Gauge("g2", <<"b", "a">>, 0, FALSE, mode)>>
InitialTextReadouts ==
  <<TextReadout("t1", <<"b">>, <<"h", "i">>, TRUE),
    TextReadout("t2", <<"a">>, <<>>, FALSE)>>
InitialHistograms(li, lc) ==
  <<Histogram("h1", <<"b">>, FALSE, NoSamples(NumQuantiles), NoSamples(NumQuantiles)),
    Histogram("h2", <<"a">>, TRUE, Samples(li, 0), Samples(lc, 10)),
    Histogram("h3", <<"a">>, TRUE, NoSamples(NumQuantiles), Samples(NumQuantiles, 20))>>

\* The orders in which a store may enumerate n metrics.
Orders(n) == {p \in [1..n -> 1..n] : \A i, j \in 1..n : p[i] = p[j] => i = j}
Enumerate(ms, p) == [i \in 1..Len(ms) |-> ms[p[i]]]

TrackerInit ==
  /\ capacity = 0
  /\ lookups = NoLookups
  /\ total = 0

\* Counter::inc
IncCounter ==
  /\ last.outcome = "returned"
  /\ \E i \in 1..Len(counters) :
       /\ counters[i].value < MaxValue
       /\ counters' = [counters EXCEPT ![i].value = @ + 1, ![i].used = TRUE]
  /\ last' = Idle
  /\ UNCHANGED <<gauges, textReadouts, histograms, trackerVars>>

\* Gauge::inc
IncGauge ==
  /\ last.outcome = "returned"
  /\ \E i \in 1..Len(gauges) :
       /\ gauges[i].value < MaxValue
       /\ gauges' = [gauges EXCEPT ![i].value = @ + 1, ![i].used = TRUE]
  /\ last' = Idle
  /\ UNCHANGED <<counters, textReadouts, histograms, trackerVars>>

\* TextReadout::set
SetTextReadout ==
  /\ last.outcome = "returned"
  /\ \E i \in 1..Len(textReadouts) :
       /\ textReadouts[i].value # <<"<", "x">>
       /\ textReadouts' = [textReadouts EXCEPT ![i].value = <<"<", "x">>, ![i].used = TRUE]
  /\ last' = Idle
  /\ UNCHANGED <<counters, gauges, histograms, trackerVars>>

\* Histogram::recordValue on a histogram without samples, and the merge that
\* computes its quantiles.
RecordValue ==
  /\ last.outcome = "returned"
  /\ \E i \in 1..Len(histograms) :
       /\ ~histograms[i].used
       /\ histograms' = [histograms EXCEPT ![i].used = TRUE,
                                           ![i].interval = Samples(Len(@), 30),
                                           ![i].cumulative = Samples(Len(@), 30)]
  /\ last' = Idle
  /\ UNCHANGED <<counters, gauges, textReadouts, trackerVars>>

\* The admin stream sends the response of the handler that returned; the
\* main thread then takes the next request.
SendResponse ==
  /\ last.outcome = "returned"
  /\ last # Idle
  /\ last' = Idle
  /\ UNCHANGED <<storeVars, trackerVars>>

\* The out-of-bounds outcomes that matter in the current store.
UBChoices ==
  IF \E i \in 1..Len(histograms) : ReadsOutOfBounds(histograms[i])
  THEN UBOutcomes ELSE {"zero"}

\* A GET of /stats
DoHandlerStats ==
  /\ last = Idle
  /\ \E req \in Requests, ub \in UBChoices : last' = HandlerStats(req, ub)
  /\ UNCHANGED <<storeVars, trackerVars>>

\* A GET of /stats/prometheus
DoHandlerPrometheusStats ==
  /\ last = Idle
  /\ \E req \in Requests :
       /\ ~req.format.has
       /\ last' = HandlerPrometheusStats("prometheus", req, <<>>, {})
  /\ UNCHANGED <<storeVars, trackerVars>>

---------------------------------------------------------------------------
(* Specifications *)

\* The /stats handlers over a well-formed store, in every enumeration order.
Init ==
  /\ \E p \in Orders(2) :
       /\ counters = Enumerate(InitialCounters, p)
       /\ gauges = Enumerate(InitialGauges("NeverImport"), p)
       /\ textReadouts = Enumerate(InitialTextReadouts, p)
  /\ \E p \in Orders(3) :
       histograms = Enumerate(InitialHistograms(NumQuantiles, NumQuantiles), p)
  /\ TrackerInit
  /\ last = Idle

Next ==
  \/ IncCounter
  \/ IncGauge
  \/ SetTextReadout
  \/ RecordValue
  \/ DoHandlerStats
  \/ DoHandlerPrometheusStats
  \/ SendResponse

Spec == Init /\ [][Next]_vars

\* The /stats handlers over a store whose second gauge may be in the
\* Uninitialized import mode.
InitGauge ==
  /\ \E p \in Orders(2), mode \in {"NeverImport", "Uninitialized"} :
       /\ counters = Enumerate(InitialCounters, p)
       /\ gauges = Enumerate(InitialGauges(mode), p)
       /\ textReadouts = Enumerate(InitialTextReadouts, p)
  /\ histograms = InitialHistograms(NumQuantiles, NumQuantiles)
  /\ TrackerInit
  /\ last = Idle

SpecGauge == InitGauge /\ [][Next]_vars

\* The numbers of computed quantiles a histogram's statistics may hold.
QuantileCounts == <<NumQuantiles + 1, NumQuantiles, NumQuantiles - 1>>

\* The /stats handlers over histograms whose computed quantiles need not be
\* as many as the supported quantiles: ParentHistogram does not tie the two.
InitQuantile ==
  /\ counters = InitialCounters
  /\ gauges = InitialGauges("NeverImport")
  /\ textReadouts = InitialTextReadouts
  /\ \E i, c \in 1..Len(QuantileCounts) :
       histograms = InitialHistograms(QuantileCounts[i], QuantileCounts[c])
  /\ TrackerInit
  /\ last = Idle

SpecQuantile == InitQuantile /\ [][Next]_vars

\* The recent-lookups handlers and /reset_counters.
InitLookups ==
  /\ \E p \in Orders(2) : counters = Enumerate(InitialCounters, p)
  /\ gauges = InitialGauges("NeverImport")
  /\ textReadouts = InitialTextReadouts
  /\ histograms = InitialHistograms(NumQuantiles, NumQuantiles)
  /\ TrackerInit
  /\ last = Idle

NextLookups ==
  \/ IncCounter
  \/ Lookup
  \/ HandlerResetCounters
  \/ HandlerStatsRecentLookups
  \/ HandlerStatsRecentLookupsClear
  \/ HandlerStatsRecentLookupsDisable
  \/ HandlerStatsRecentLookupsEnable
  \/ SendResponse

SpecLookups == InitLookups /\ [][NextLookups]_vars

---------------------------------------------------------------------------
(* Properties: vocabulary *)

\* The request's filter parameter is a pattern that does not compile.
BadFilter(req) == req.filter.has /\ ~Compiles(req.filter.pat)

\* The filter decision of a request, as the interface states it.
Passes(metric, req) ==
  /\ (req.usedonly => metric.used)
  /\ (req.filter.has => RegexSearch(metric.name, req.filter.pat))

\* The ids of the metrics of a store sequence that pass the request's filter.
PassingIds(ms, req) == {ms[i].id : i \in {j \in 1..Len(ms) : Passes(ms[j], req)}}
UnusedIds(ms) == {ms[i].id : i \in {j \in 1..Len(ms) : ~ms[j].used}}
AllUnusedIds ==
  UnusedIds(counters) \cup UnusedIds(gauges) \cup UnusedIds(textReadouts)
  \cup UnusedIds(histograms)

\* The pieces of a body that render a metric.
MetricKinds == {"text_readout", "stat", "histogram", "prometheus", "json"}
NoMetricOutput(body) == \A i \in 1..Len(body) : body[i].kind \notin MetricKinds

\* The ids behind the pieces of one kind of a plain-text body.
PlainIds(body, kind) ==
  {body[i].src : i \in {j \in 1..Len(body) : body[j].kind = kind}}

\* A handlerStats run that returned a plain-text body.
PlainResponse ==
  /\ last.op = "stats" /\ last.outcome = "returned"
  /\ ~BadFilter(last.req) /\ ~last.req.format.has

\* A handlerStats run that returned a JSON document.
JsonResponse ==
  /\ last.op = "stats" /\ last.outcome = "returned"
  /\ ~BadFilter(last.req)
  /\ last.req.format.has /\ last.req.format.value = "json"

\* The stats array of the JSON document returned, its histograms wrappers,
\* and the objects before them.
JsonStats == last.body[1].doc.stats
IsWrapper(e) == "histograms" \in DOMAIN e
Wrappers == {i \in 1..Len(JsonStats) : IsWrapper(JsonStats[i])}
JsonComputed ==
  IF Wrappers = {} THEN <<>>
  ELSE JsonStats[CHOOSE i \in Wrappers : TRUE].histograms.computed_quantiles
JsonScalarIds(field) ==
  {JsonStats[i].src :
     i \in {j \in 1..Len(JsonStats) :
              ~IsWrapper(JsonStats[j]) /\ field \in DOMAIN JsonStats[j].value}}
JsonHistogramIds == {JsonComputed[i].src : i \in 1..Len(JsonComputed)}

\* The place of a histogram in the store's enumeration.
StorePlace(id) == CHOOSE i \in 1..Len(histograms) : histograms[i].id = id

---------------------------------------------------------------------------
(* Properties of the /stats handlers over a well-formed store (Spec) *)

\* C1: when the filter pattern does not compile, handlerStats and
\* handlerPrometheusStats return 400 without calling any accessor of the
\* store and without adding any metric output, whatever the format
\* parameter is (an unrecognized format with a bad filter gives 400, not 404).
C1_BadFilterRejected ==
  (last.op \in {"stats", "prometheus"} /\ BadFilter(last.req))
    => /\ last.outcome = "returned"
       /\ last.status = HttpBadRequest
       /\ last.reads = {}
       /\ NoMetricOutput(last.body)

C1_Witness ==
  /\ last.op = "stats" /\ BadFilter(last.req)
  /\ last.req.format.has /\ last.req.format.value = "xml"
  /\ last.status = HttpBadRequest

\* C2: with a filter that is absent or compiles and a format value other than
\* json and prometheus, handlerStats returns 404, the body begins with the
\* usage hint, and the body holds no metric output.
C2_UnknownFormatNotFound ==
  (/\ last.op = "stats" /\ ~BadFilter(last.req)
   /\ last.req.format.has /\ last.req.format.value \notin {"json", "prometheus"})
    => /\ last.outcome = "returned"
       /\ last.status = HttpNotFound
       /\ Len(last.body) >= 1 /\ last.body[1].kind = "usage"
       /\ NoMetricOutput(last.body)

C2_Witness ==
  /\ last.op = "stats" /\ last.req.filter.has /\ ~BadFilter(last.req)
  /\ last.req.format.has /\ last.req.format.value = "xml"
  /\ last.status = HttpNotFound
  /\ \E i \in 1..Len(counters) : Passes(counters[i], last.req)

\* C3: with usedonly set, the plain-text and the JSON output of handlerStats
\* render no metric whose used flag is false, and in each of the four metric
\* kinds the metrics rendered are exactly those that pass the one filter
\* decision (used-only and name search), the histograms of the JSON document
\* included.
C3_UsedOnlyHidesUnused ==
  /\ (PlainResponse /\ last.req.usedonly)
       => /\ \A i \in 1..Len(last.body) : last.body[i].src \notin AllUnusedIds
          /\ PlainIds(last.body, "text_readout") = PassingIds(textReadouts, last.req)
          /\ PlainIds(last.body, "stat")
               = PassingIds(counters, last.req) \cup PassingIds(gauges, last.req)
          /\ PlainIds(last.body, "histogram") = PassingIds(histograms, last.req)
  /\ (JsonResponse /\ last.req.usedonly)
       => /\ (JsonScalarIds("string") \cup JsonScalarIds("number") \cup JsonHistogramIds)
               \cap AllUnusedIds = {}
          /\ JsonScalarIds("string") = PassingIds(textReadouts, last.req)
          /\ JsonScalarIds("number")
               = PassingIds(counters, last.req) \cup PassingIds(gauges, last.req)
          /\ JsonHistogramIds = PassingIds(histograms, last.req)

C3_Witness ==
  /\ JsonResponse /\ last.req.usedonly
  /\ UnusedIds(histograms) # {} /\ UnusedIds(counters) # {}
  /\ UnusedIds(gauges) # {} /\ UnusedIds(textReadouts) # {}
  /\ JsonHistogramIds # {} /\ JsonScalarIds("number") # {}

\* C4: the stats array of the JSON document holds a histograms wrapper if and
\* only if a histogram of the store passes the filter; a wrapper that is
\* there is the only one, is the last element of the array, and lists at
\* least one histogram.
C4_HistogramsWrapper ==
  JsonResponse
    => /\ (Wrappers # {}) <=> (PassingIds(histograms, last.req) # {})
       /\ Wrappers # {} => /\ Wrappers = {Len(JsonStats)}
                           /\ JsonComputed # <<>>

C4_Witness ==
  /\ JsonResponse
  /\ PassingIds(histograms, last.req) = {}
  /\ Wrappers = {}
  /\ Len(JsonStats) > 0
  /\ \E i \in 1..Len(histograms) : histograms[i].used

\* The metric of a store sequence with the given id.
MetricOf(ms, id) == ms[CHOOSE i \in 1..Len(ms) : ms[i].id = id]

\* What a plain-text line must say about the metric it renders.
PlainLineRight(line) ==
  CASE line.kind = "text_readout" ->
         LET m == MetricOf(textReadouts, line.src)
         IN  line.name = m.name /\ line.text = Sanitize(m.value)
    [] line.kind = "stat" ->
         LET m == MetricOf(counters \o gauges, line.src)
         IN  line.name = m.name /\ line.value = m.value
    [] line.kind = "histogram" ->
         LET m == MetricOf(histograms, line.src)
         IN  /\ line.name = m.name
             /\ line.summary = [interval |-> m.interval, cumulative |-> m.cumulative]
    [] OTHER -> FALSE

\* C9: without a format parameter the body is three groups in a row: the
\* filtered text readouts in ascending name order, the filtered counters and
\* gauges together in ascending name order, and one line per filtered
\* histogram in ascending name order, equal names in the store's enumeration
\* order.  Every line renders its metric's name and value, so the body is
\* fixed by the metrics and, for equal names, their enumeration order.
C9_PlainTextOrder ==
  PlainResponse
    => LET body == last.body
           nT == Cardinality(PassingIds(textReadouts, last.req))
           nS == Cardinality(PassingIds(counters, last.req)
                             \cup PassingIds(gauges, last.req))
           nH == Cardinality(PassingIds(histograms, last.req))
           Kind(i) == IF i <= nT THEN "text_readout"
                      ELSE IF i <= nT + nS THEN "stat" ELSE "histogram"
       IN  /\ last.status = HttpOK
           /\ Len(body) = nT + nS + nH
           /\ \A i \in 1..Len(body) : body[i].kind = Kind(i) /\ PlainLineRight(body[i])
           /\ PlainIds(body, "text_readout") = PassingIds(textReadouts, last.req)
           /\ PlainIds(body, "stat")
                = PassingIds(counters, last.req) \cup PassingIds(gauges, last.req)
           /\ PlainIds(body, "histogram") = PassingIds(histograms, last.req)
           /\ \A i \in 1..(Len(body) - 1) :
                Kind(i) = Kind(i + 1)
                  => \/ StrLess(body[i].name, body[i + 1].name)
                     \/ /\ Kind(i) = "histogram"
                        /\ body[i].name = body[i + 1].name
                        /\ StorePlace(body[i].src) < StorePlace(body[i + 1].src)

C9_Witness ==
  /\ PlainResponse
  /\ Len(last.body) = Len(counters) + Len(gauges) + Len(textReadouts) + Len(histograms)
  /\ StrLess(histograms[3].name, histograms[1].name)
  /\ histograms[2].name = histograms[3].name
  /\ StrLess(textReadouts[2].name, textReadouts[1].name)
  /\ last.body[Len(last.body) - 1].name = last.body[Len(last.body) - 2].name

\* C7 as claimed: computed_quantiles holds one object per histogram that
\* passes the filter, in ascending order of histogram name, equal names in
\* the store's enumeration order.
C7_SortedByName ==
  JsonResponse
    => /\ Len(JsonComputed) = Cardinality(PassingIds(histograms, last.req))
       /\ JsonHistogramIds = PassingIds(histograms, last.req)
       /\ \A i \in 1..(Len(JsonComputed) - 1) :
            \/ StrLess(JsonComputed[i].name.string, JsonComputed[i + 1].name.string)
            \/ /\ JsonComputed[i].name.string = JsonComputed[i + 1].name.string
               /\ StorePlace(JsonComputed[i].src) < StorePlace(JsonComputed[i + 1].src)

\* C7 as amended: computed_quantiles holds one object per histogram that
\* passes the filter, histograms of equal name each kept, in the order in
\* which the store enumerates its histograms: statsAsJson walks the store's
\* vector and does not sort.
C7_StoreOrder ==
  JsonResponse
    => /\ Len(JsonComputed) = Cardinality(PassingIds(histograms, last.req))
       /\ JsonHistogramIds = PassingIds(histograms, last.req)
       /\ \A i \in 1..Len(JsonComputed) :
            JsonComputed[i].name.string = MetricOf(histograms, JsonComputed[i].src).name
       /\ \A i \in 1..(Len(JsonComputed) - 1) :
            StorePlace(JsonComputed[i].src) < StorePlace(JsonComputed[i + 1].src)

C7_Witness ==
  /\ JsonResponse
  /\ Len(JsonComputed) = 3
  /\ StrLess(JsonComputed[2].name.string, JsonComputed[1].name.string)
  /\ JsonComputed[2].name.string = JsonComputed[3].name.string

---------------------------------------------------------------------------
(* Properties of statsAsJson over histograms of any shape (SpecQuantile) *)

\* The JSON value of a computed quantile.
JsonOf(d) == IF d = NaN THEN NullValue ELSE NumberValue(d)

\* The supported_quantiles list of the document returned.
JsonSupported ==
  JsonStats[CHOOSE i \in Wrappers : TRUE].histograms.supported_quantiles

\* The histogram's computed quantiles are not as many as the cut-points, or
\* not as many for the interval as for the cumulative statistics.
Mismatched(histogram) ==
  \/ Len(histogram.interval) # Len(histogram.cumulative)
  \/ Len(histogram.interval) # Len(SupportedQuantiles)
  \/ Len(histogram.cumulative) # Len(SupportedQuantiles)

\* A JSON request whose filter compiles.
JsonRequest ==
  /\ last.op = "stats" /\ ~BadFilter(last.req)
  /\ last.req.format.has /\ last.req.format.value = "json"

---------------------------------------------------------------------------
(* Properties of handlerStats over a store with an Uninitialized gauge
   (SpecGauge) *)

\* The gauges in the Uninitialized import mode.
UninitializedIds ==
  {gauges[i].id : i \in {j \in 1..Len(gauges) : gauges[j].importMode = "Uninitialized"}}

\* The ids behind every piece of the body returned, of any format.
RenderedIds ==
  IF \E i \in 1..Len(last.body) : last.body[i].kind = "json"
  THEN JsonScalarIds("string") \cup JsonScalarIds("number") \cup JsonHistogramIds
  ELSE {last.body[i].src :
          i \in {j \in 1..Len(last.body) : "src" \in DOMAIN last.body[j]}}

\* A handlerStats request whose filter compiles.
StatsRequest == last.op = "stats" /\ ~BadFilter(last.req)

\* C10 as claimed: a gauge in the Uninitialized import mode is never
\* rendered, and its presence in the store makes handlerStats report an
\* invariant violation, also when the used-only or name filter excludes it.
C10_AlwaysReported ==
  StatsRequest
    => /\ RenderedIds \cap UninitializedIds = {}
       /\ UninitializedIds # {} => last.outcome = "assert_failed"

\* C10 as amended: a gauge in the Uninitialized import mode is never rendered
\* by handlerStats; the assertion fails, and ends the request, exactly when
\* such a gauge passes the filter.  An Uninitialized gauge that the used-only
\* or name filter excludes is skipped without any report, and the request
\* returns as usual.
C10_ReportedWhenShown ==
  StatsRequest
    => /\ RenderedIds \cap UninitializedIds = {}
       /\ last.outcome = "assert_failed"
            <=> (PassingIds(gauges, last.req) \cap UninitializedIds # {})
       /\ last.outcome = "assert_failed" => last.body = <<>>

C10_Witness ==
  /\ StatsRequest
  /\ last.outcome = "assert_failed"
  /\ \E i \in 1..Len(gauges) : gauges[i].importMode = "Uninitialized" /\ gauges[i].used

---------------------------------------------------------------------------
(* Properties of /reset_counters and the recent-lookups handlers
   (SpecLookups) *)

\* C5: handlerResetCounters always returns 200 with the body OK, and when it
\* has returned every counter of the store is zero and the recent-lookups
\* tracker is cleared: success is never reported with only one of the two
\* done.
C5_ResetIsWhole ==
  last.op = "reset_counters"
    => /\ last.outcome = "returned" /\ last.status = HttpOK /\ last.body = OkBody
       /\ \A i \in 1..Len(counters) : counters[i].value = 0
       /\ lookups = NoLookups /\ total = 0

C5_Witness ==
  /\ last.op = "reset_counters" /\ last.status = HttpOK
  /\ capacity > 0
  /\ \A i \in 1..Len(counters) : counters[i].used /\ counters[i].value = 0

\* The tracker reports no entry.
NoEntries == \A n \in LookupNames : lookups[n] = 0

\* C6: handlerStatsRecentLookups returns the disabled-tracking message, and
\* no table header, exactly when the capacity is zero and the tracker
\* reports no entry; in every other state it returns the table header and
\* one row, count and name, per entry.  The body always ends with the total
\* line and the status is 200.
C6_RecentLookupsReport ==
  last.op = "recent_lookups"
    => LET body == last.body
           rows == {i \in 1..Len(body) : body[i].kind = "row"}
       IN  /\ last.status = HttpOK
           /\ body[Len(body)] = TotalLine(total)
           /\ (capacity = 0 /\ NoEntries) => body = <<DisabledMessage, TotalLine(total)>>
           /\ ~(capacity = 0 /\ NoEntries) =>
                /\ body[1] = TableHeader
                /\ \A i \in 1..Len(body) : body[i] # DisabledMessage
                /\ rows = 2..(Len(body) - 1)
                /\ Cardinality(rows) = Cardinality({n \in LookupNames : lookups[n] > 0})
                /\ \A n \in LookupNames :
                     lookups[n] > 0 =>
                       \E i \in rows : body[i].name = n /\ body[i].count = lookups[n]

C6_Witness ==
  /\ last.op = "recent_lookups"
  /\ capacity = 0 /\ ~NoEntries
  /\ last.body[1] = TableHeader
  /\ Len(last.body) = 4

====
